---- MODULE Spec2Model ----
(***************************************************************************)
(* Package manifest transformation engine of the library build CLI:        *)
(* source classification, build-plan derivation, export-map synthesis,     *)
(* the dev/prod manifest transform (writePackageJson) and the build        *)
(* orchestration (buildCommand / cleanBuild).                              *)
(*                                                                         *)
(* Representation.  A path string is a record [dot, dir, segs, ext]:       *)
(*   "./src/cmd/run.js" = [dot |-> TRUE, dir |-> "src",                    *)
(*                         segs |-> <<"cmd","run">>, ext |-> "js"]         *)
(* so that every regular expression of the source acts on the part of the  *)
(* string it matches.  A source file is [dir, base, ext] relative to src/. *)
(* The manifest on disk is a record: `order` is the top-level key order of *)
(* the JSON text, `canon` tells whether the text is exactly                *)
(* JSON.stringify(obj, null, 2) + "\n".                                    *)
(***************************************************************************)
EXTENDS Integers, Sequences, FiniteSets, TLC

VARIABLES tree, disk, last, pc, build, dirs, events, gitignore

vars == <<tree, disk, last, pc, build, dirs, events, gitignore>>

\* ---------------------------------------------------------------- bounds
MaxFiles == 2
MaxBins == 2
MaxFailures == 1
MaxEvents == 2
MaxLines == 4

\* ----------------------------------------------------------------- paths
Path(dot, dir, segs, ext) == [dot |-> dot, dir |-> dir, segs |-> segs, ext |-> ext]

NoPath == Path(FALSE, "", <<>>, "")

getSourceDir == "src"
getESMDir == "esm"
getCJSDir == "cjs"

SeqRange(s) == {s[i] : i \in 1..Len(s)}

\* ----------------------------------------------------------- source tree
File(dir, base, ext) == [dir |-> dir, base |-> base, ext |-> ext]

FileUniverse ==
    { File(<<>>, "index", "ts"),
      File(<<>>, "index", "js"),
      File(<<>>, "index", "cjs"),
      File(<<>>, "cli", "js"),
      File(<<"cmd">>, "run", "cjs"),
      File(<<"cmd">>, "dev", "ts") }

Trees == {t \in SUBSET FileUniverse : Cardinality(t) <= MaxFiles}

\* /\.(js|jsx|ts|tsx|cjs|mjs|cts|mts)$/
SourceExts == {"js", "jsx", "ts", "tsx", "cjs", "mjs", "cts", "mts"}

\* position of an extension in the order readdirSync(...).sort() gives to
\* two files of one directory that differ only in their extension
ExtRank(e) ==
    CASE e = "cjs" -> 1 [] e = "cts" -> 2 [] e = "js" -> 3 [] e = "jsx" -> 4
      [] e = "mjs" -> 5 [] e = "mts" -> 6 [] e = "ts" -> 7 [] e = "tsx" -> 8
      [] OTHER -> 0

\* /^.*\.test\..*/ or /^.*\.spec\..*/ on a file name whose base is `base`
TestBases == {"util.test", "util.spec"}
isTestName(base) == base \in TestBases

IsPrefix(d, s) == Len(d) <= Len(s) /\ SubSeq(s, 1, Len(d)) = d

\* readdirSync(dir): the files and the sub-directory names of directory d
FilesAt(t, d) == {f \in t : f.dir = d}
DirsAt(t, d) == {f.dir[Len(d) + 1] : f \in {g \in t : IsPrefix(d, g.dir) /\ Len(g.dir) > Len(d)}}
FilesUnder(t, d) == {f \in t : IsPrefix(d, f.dir)}

existsSync(t, f) == f \in t

\* ------------------------------------------------------------- manifest
BinNone == [kind |-> "none", entries |-> {}]
BinStr(p) == [kind |-> "str", entries |-> {[name |-> "", path |-> p]}]
BinMap(es) == [kind |-> "map", entries |-> es]

HasKey(m, k) == k \in SeqRange(m.order)

\* truthiness of pkg.main / pkg.module / pkg.bin / pkg.types / pkg.typings
\* (a present field holds a non-empty string or, for bin, a mapping)
Truthy(m, k) == HasKey(m, k)

isPureCLIPackage(m) == Truthy(m, "bin") /\ ~Truthy(m, "main") /\ ~Truthy(m, "module")

shouldProcessInDev(m) == Truthy(m, "main") \/ Truthy(m, "module")

hasTypesField(m) == Truthy(m, "types") \/ Truthy(m, "typings")

\* ----------------------------------------------------- build-plan deriver
\* (variant: the bin default added without looking at the plan so far)
getPackageBuilds_BinAlways(m) ==
    LET b1 == IF Truthy(m, "main") THEN {"cjs"} ELSE {}
        b2 == IF Truthy(m, "module") THEN b1 \cup {"esm"} ELSE b1
        b3 == IF Truthy(m, "bin") THEN b2 \cup {"esm"} ELSE b2
    IN  IF b3 = {} THEN [err |-> "ConfigurationError", builds |-> {}]
        ELSE [err |-> "none", builds |-> b3]

\* getPackageBuilds: [err, builds]; builds is the key set of the plan (the
\* directory of format f is the constant getCJSDir / getESMDir)
getPackageBuilds(m) ==
    LET b1 == IF Truthy(m, "main") THEN {"cjs"} ELSE {}
        b2 == IF Truthy(m, "module") THEN b1 \cup {"esm"} ELSE b1
        b3 == IF Truthy(m, "bin") /\ b2 = {} THEN {"esm"} ELSE b2
    IN  IF b3 = {} THEN [err |-> "ConfigurationError", builds |-> {}]
        ELSE [err |-> "none", builds |-> b3]

\* ------------------------------------------------------ source classifier
\* a normalized bin string "a/b.ext" is [segs |-> <<"a","b">>, ext |-> "ext"]
FullSegs(p) == IF p.dir = "" THEN p.segs ELSE <<p.dir>> \o p.segs

\* getBinPaths: only a mapping is looked at; strips "./", a leading
\* cjs/ esm/ src/ and the extensions cjs js mjs ts tsx
getBinPaths(m) ==
    IF ~Truthy(m, "bin") \/ m.bin.kind # "map" THEN {}
    ELSE { [segs |-> IF e.path.dir \in {"cjs", "esm", "src"}
                     THEN e.path.segs ELSE FullSegs(e.path),
            ext |-> IF e.path.ext \in {"cjs", "js", "mjs", "ts", "tsx"}
                    THEN "" ELSE e.path.ext] : e \in m.bin.entries }

isPathCoveredByBin(relativePath, binPaths) == relativePath \in binPaths

RECURSIVE areAllFilesInBin(_, _, _)
areAllFilesInBin(t, dirName, binPaths) ==
    /\ \A sub \in DirsAt(t, dirName) :
          areAllFilesInBin(t, dirName \o <<sub>>, binPaths)
    /\ \A f \in FilesAt(t, dirName) :
          f.ext \in SourceExts =>
             isPathCoveredByBin([segs |-> dirName \o <<f.base>>, ext |-> ""], binPaths)

\* isPublicModuleForBuild on a file entry / on a directory entry
isPublicModuleForBuildFile(f) == ~isTestName(f.base) /\ f.ext \in SourceExts
isPublicModuleForBuildDir(name) == ~isTestName(name)

\* isPublicModule on a file entry
isPublicModuleFile(f) == ~isTestName(f.base) /\ f.ext \in SourceExts

\* isPublicModule on a directory entry `name` of directory `prefix`: the
\* manifest is read from join(rootPath, '..'), which is the package root
\* only when rootPath is src/ itself; below it the read throws and the
\* catch answers false
isPublicModuleDir(t, m, prefix, name) ==
    /\ ~isTestName(name)
    /\ prefix = <<>>
    /\ LET binPaths == getBinPaths(m)
       IN  ~(binPaths # {} /\ areAllFilesInBin(t, prefix \o <<name>>, binPaths))

\* the entry that survives `{ ...acc, [key]: path }` over the sorted names:
\* of the files of one directory with one base, the last in sort order
LastOfKey(fs) == {f \in fs : \A g \in fs : g.base = f.base => ExtRank(g.ext) <= ExtRank(f.ext)}

Entry(f) == [key |-> f.dir \o <<f.base>>, file |-> f]

PureCLIIndex(t) ==
    LET its == File(<<>>, "index", "ts")
        ijs == File(<<>>, "index", "js")
    IN  IF ~existsSync(t, its) /\ ~existsSync(t, ijs)
        THEN [err |-> "ConfigurationError", files |-> {}]
        ELSE [err |-> "none",
              files |-> {[key |-> <<"index">>, file |-> IF existsSync(t, its) THEN its ELSE ijs]}]

RECURSIVE getAllBuildFiles(_, _, _)
getAllBuildFiles(t, m, prefix) ==
    IF prefix = <<>> /\ isPureCLIPackage(m) THEN PureCLIIndex(t)
    ELSE
      LET fs == {f \in FilesAt(t, prefix) : isPublicModuleForBuildFile(f)}
          ds == {d \in DirsAt(t, prefix) : isPublicModuleForBuildDir(d)}
          child == [d \in ds |-> getAllBuildFiles(t, m, prefix \o <<d>>)]
      IN  IF fs = {} /\ ds = {} THEN [err |-> "ConfigurationError", files |-> {}]
          ELSE IF \E d \in ds : child[d].err # "none"
          THEN [err |-> "ConfigurationError", files |-> {}]
          ELSE [err |-> "none",
                files |-> {Entry(f) : f \in LastOfKey(fs)}
                            \cup UNION {child[d].files : d \in ds}]

RECURSIVE getPublicFiles(_, _, _)
getPublicFiles(t, m, prefix) ==
    IF prefix = <<>> /\ isPureCLIPackage(m) THEN PureCLIIndex(t)
    ELSE
      LET fs == {f \in FilesAt(t, prefix) : isPublicModuleFile(f)}
          ds == {d \in DirsAt(t, prefix) : isPublicModuleDir(t, m, prefix, d)}
          child == [d \in ds |-> getPublicFiles(t, m, prefix \o <<d>>)]
      IN  IF fs = {} /\ ds = {} THEN [err |-> "ConfigurationError", files |-> {}]
          ELSE IF \E d \in ds : child[d].err # "none"
          THEN [err |-> "ConfigurationError", files |-> {}]
          ELSE [err |-> "none",
                files |-> {Entry(f) : f \in LastOfKey(fs)}
                            \cup UNION {child[d].files : d \in ds}]

\* getBinFilePaths: a string or a mapping; strips "./" and the extensions
\* js ts jsx tsx, and keeps the leading directory
getBinFilePaths(m) ==
    IF ~Truthy(m, "bin") THEN {}
    ELSE { [segs |-> FullSegs(e.path),
            ext |-> IF e.path.ext \in {"js", "ts", "jsx", "tsx"} THEN "" ELSE e.path.ext]
           : e \in m.bin.entries }

\* filterBinFromPublicFiles: drops an entry when "src/<rel>" or "<rel>" is a
\* bin path, <rel> being its file path under src/ without js ts jsx tsx
filterBinFromPublicFiles(publicFiles, binPaths) ==
    IF binPaths = {} THEN publicFiles
    ELSE { e \in publicFiles :
             LET rel == e.file.dir \o <<e.file.base>>
                 x   == IF e.file.ext \in {"js", "ts", "jsx", "tsx"} THEN "" ELSE e.file.ext
             IN  /\ [segs |-> <<"src">> \o rel, ext |-> x] \notin binPaths
                 /\ [segs |-> rel, ext |-> x] \notin binPaths }

\* getIndexFileExtension
getIndexFileExtension(t, prod) ==
    IF prod THEN "ts"
    ELSE IF existsSync(t, File(<<>>, "index", "js")) THEN "js"
    ELSE IF existsSync(t, File(<<>>, "index", "ts")) THEN "ts"
    ELSE IF existsSync(t, File(<<>>, "index", "mjs")) THEN "mjs"
    ELSE IF existsSync(t, File(<<>>, "index", "cjs")) THEN "cjs"
    ELSE "js"

\* ------------------------------------------------- export-map synthesizer
Absent(p) == p = NoPath

ExportEntry(key, types, import, require) ==
    [key |-> key, lit |-> FALSE, types |-> types, import |-> import, require |-> require]

\* "./package.json": "./package.json"
PkgJsonEntry ==
    [key |-> <<"package.json">>, lit |-> TRUE, types |-> NoPath, import |-> NoPath, require |-> NoPath]

\* name === 'index' -> "." (the empty key); else "./" + name without a
\* trailing "/index"
ExportKey(name) ==
    IF name = <<"index">> THEN <<>>
    ELSE IF Len(name) > 1 /\ name[Len(name)] = "index" THEN SubSeq(name, 1, Len(name) - 1)
    ELSE name

\* (variant: types handled as getPackageJson does, whatever was read)
originalHadTypes_Always(m) == TRUE

\* originalHadTypes = 'types' in pkg, taken before any mutation
originalHadTypes(m) == HasKey(m, "types")

\* (variant: both format conditions written whatever the build plan holds)
getExports_BothFormats(f, prod, builds, hadTypes) ==
    LET rel == f.dir \o <<f.base>>
        src == Path(TRUE, getSourceDir, rel, f.ext)
    IN  [types   |-> IF ~hadTypes THEN NoPath
                     ELSE IF prod THEN Path(TRUE, getESMDir, rel, "d.ts") ELSE src,
         import  |-> IF prod THEN Path(TRUE, getESMDir, rel, "js") ELSE src,
         require |-> IF prod THEN Path(TRUE, getCJSDir, rel, "cjs") ELSE src]

\* (variant: the declaration file taken from cjs/ whenever a cjs build exists)
getExports_CjsTypes(f, prod, builds, hadTypes) ==
    LET rel == f.dir \o <<f.base>>
        src == Path(TRUE, getSourceDir, rel, f.ext)
        dts == IF "cjs" \in builds THEN Path(TRUE, getCJSDir, rel, "d.ts")
               ELSE Path(TRUE, getESMDir, rel, "d.ts")
    IN  [types   |-> IF ~hadTypes THEN NoPath ELSE IF prod THEN dts ELSE src,
         import  |-> IF "esm" \notin builds THEN NoPath
                     ELSE IF prod THEN Path(TRUE, getESMDir, rel, "js") ELSE src,
         require |-> IF "cjs" \notin builds THEN NoPath
                     ELSE IF prod THEN Path(TRUE, getCJSDir, rel, "cjs") ELSE src]

\* (variant: development values with the normalized .js extension)
getExports_NormalizedExt(f, prod, builds, hadTypes) ==
    LET rel == f.dir \o <<f.base>>
        src == Path(TRUE, getSourceDir, rel, "js")
        pref == IF "esm" \in builds THEN getESMDir ELSE getCJSDir
    IN  [types   |-> IF ~hadTypes THEN NoPath
                     ELSE IF prod THEN Path(TRUE, pref, rel, "d.ts") ELSE src,
         import  |-> IF "esm" \notin builds THEN NoPath
                     ELSE IF prod THEN Path(TRUE, getESMDir, rel, "js") ELSE src,
         require |-> IF "cjs" \notin builds THEN NoPath
                     ELSE IF prod THEN Path(TRUE, getCJSDir, rel, "cjs") ELSE src]

\* getExports of writePackageJson for one public file
getExports(f, prod, builds, hadTypes) ==
    LET rel == f.dir \o <<f.base>>
        sourceExport == Path(TRUE, getSourceDir, rel, f.ext)
        esmExport == Path(TRUE, getESMDir, rel, "js")
        cjsExport == Path(TRUE, getCJSDir, rel, "cjs")
    IN  IF ~prod
        THEN [types   |-> IF hadTypes THEN sourceExport ELSE NoPath,
              import  |-> IF "esm" \in builds THEN sourceExport ELSE NoPath,
              require |-> IF "cjs" \in builds THEN sourceExport ELSE NoPath]
        ELSE [types   |-> IF hadTypes
                          THEN IF "esm" \in builds THEN Path(TRUE, getESMDir, rel, "d.ts")
                               ELSE IF "cjs" \in builds THEN Path(TRUE, getCJSDir, rel, "d.ts")
                               ELSE NoPath
                          ELSE NoPath,
              import  |-> IF "esm" \in builds THEN esmExport ELSE NoPath,
              require |-> IF "cjs" \in builds THEN cjsExport ELSE NoPath]

\* moduleExports plus the "./package.json" self reference.  The object key
\* order is a function of the tree and of the key set, so the set stands
\* for the serialized object.
synthesizeExports(publicFiles, prod, builds, hadTypes) ==
    { LET x == getExports(e.file, prod, builds, hadTypes)
      IN  ExportEntry(ExportKey(e.key), x.types, x.import, x.require) : e \in publicFiles }
    \cup {PkgJsonEntry}

\* ---------------------------------------------------- manifest transformer
\* the keys packageJsonSchema declares
SchemaKeys ==
    {"name", "version", "private", "main", "module", "bin", "exports", "dependencies",
     "devDependencies", "peerDependencies", "scripts", "type", "types", "typings"}

\* (variant: the assignment made on the schema-parsed object of
\* readPackageJson, which has lost the keys the schema does not declare)
SetKey_Validated(order, k) ==
    LET o == SelectSeq(order, LAMBDA x : x \in SchemaKeys)
    IN  IF k \in SeqRange(o) THEN o ELSE Append(o, k)

\* pkg.k = v on the parsed object: an existing key keeps its position, a new
\* key is appended
SetKey(order, k) == IF k \in SeqRange(order) THEN order ELSE Append(order, k)

\* the bin rewrite of one path: string bin (no startsWith guard in prod
\* mode) and mapping bin (guarded by startsWith in both modes)
StartsWithDot(p, ds) == p.dot /\ p.dir \in ds

rewriteBinString(p, prod, builds) ==
    IF prod
    THEN IF "cjs" \in builds
         THEN [p EXCEPT !.dir = IF StartsWithDot(p, {"src"}) THEN "cjs" ELSE @,
                        !.ext = IF @ = "js" THEN "cjs" ELSE @]
         ELSE IF "esm" \in builds
         THEN [p EXCEPT !.dir = IF StartsWithDot(p, {"src"}) THEN "esm" ELSE @]
         ELSE p
    ELSE IF StartsWithDot(p, {"cjs", "esm"})
         THEN [p EXCEPT !.dir = "src", !.ext = IF @ = "cjs" THEN "js" ELSE @]
         ELSE p

rewriteBinEntry(p, prod, builds) ==
    IF prod /\ StartsWithDot(p, {"src"})
    THEN IF "cjs" \in builds
         THEN [p EXCEPT !.dir = "cjs", !.ext = IF @ = "js" THEN "cjs" ELSE @]
         ELSE IF "esm" \in builds
         THEN [p EXCEPT !.dir = "esm"]
         ELSE p
    ELSE IF ~prod /\ StartsWithDot(p, {"cjs", "esm"})
         THEN [p EXCEPT !.dir = "src", !.ext = IF @ = "cjs" THEN "js" ELSE @]
         ELSE p

rewriteBin(bin, prod, builds) ==
    IF bin.kind = "str"
    THEN [bin EXCEPT !.entries = {[e EXCEPT !.path = rewriteBinString(@, prod, builds)] : e \in @}]
    ELSE IF bin.kind = "map"
    THEN [bin EXCEPT !.entries = {[e EXCEPT !.path = rewriteBinEntry(@, prod, builds)] : e \in @}]
    ELSE bin

\* the in-place mutation of the parsed object, once everything is computed
mutatePkg(m, t, prod, builds, publicFiles) ==
    LET hadTypes == originalHadTypes(m)
        ext == getIndexFileExtension(t, prod)
        devIndex == Path(FALSE, getSourceDir, <<"index">>, ext)
        m1 == IF "cjs" \in builds
              THEN [m EXCEPT !.main = IF prod THEN Path(FALSE, getCJSDir, <<"index">>, "cjs") ELSE devIndex,
                             !.types = IF hadTypes
                                       THEN IF prod THEN Path(FALSE, getCJSDir, <<"index">>, "d.ts") ELSE devIndex
                                       ELSE @,
                             !.order = IF hadTypes THEN SetKey(SetKey(@, "main"), "types")
                                       ELSE SetKey(@, "main")]
              ELSE m
        m2 == IF "esm" \in builds
              THEN [m1 EXCEPT !.module = IF prod THEN Path(FALSE, getESMDir, <<"index">>, "js") ELSE devIndex,
                              !.types = IF hadTypes
                                        THEN IF prod THEN Path(FALSE, getESMDir, <<"index">>, "d.ts") ELSE devIndex
                                        ELSE @,
                              !.order = IF hadTypes THEN SetKey(SetKey(@, "module"), "types")
                                        ELSE SetKey(@, "module")]
              ELSE m1
        m3 == IF Truthy(m2, "bin") THEN [m2 EXCEPT !.bin = rewriteBin(@, prod, builds)] ELSE m2
    IN  [m3 EXCEPT !.exports = synthesizeExports(publicFiles, prod, builds, hadTypes),
                   !.order = SetKey(@, "exports")]

\* everything writePackageJson computes before it serializes: [err, next]
computeNext(m, t, prod) ==
    LET pub == getPublicFiles(t, m, <<>>)
        blds == getPackageBuilds(m)
    IN  IF pub.err # "none" THEN [err |-> pub.err, next |-> m]
        ELSE IF blds.err # "none" THEN [err |-> blds.err, next |-> m]
        ELSE [err |-> "none",
              next |-> mutatePkg(m, t, prod, blds.builds,
                                 filterBinFromPublicFiles(pub.files, getBinFilePaths(m)))]

\* (variant: the exports are written as soon as they are known, before the
\* build plan is derived)
writePackageJson_EagerWrite(m, t, prod, io) ==
    IF io = "read" THEN [err |-> "PackageError", disk |-> m, wrote |-> FALSE]
    ELSE LET c == computeNext(m, t, prod)
             nextContents == [c.next EXCEPT !.canon = TRUE]
             pub == getPublicFiles(t, m, <<>>)
             early == [m EXCEPT !.canon = TRUE, !.order = SetKey(@, "exports"),
                                !.exports = synthesizeExports(pub.files, prod, {}, FALSE)]
         IN  IF c.err # "none"
             THEN [err |-> c.err, disk |-> IF pub.err = "none" THEN early ELSE m, wrote |-> FALSE]
             ELSE IF m = nextContents THEN [err |-> "none", disk |-> m, wrote |-> FALSE]
             ELSE [err |-> "none", disk |-> nextContents, wrote |-> TRUE]

\* writePackageJson(rootPath, prod): [err, disk, wrote].  io = "read" is an
\* I/O failure of the initial readFileSync.  The text is written only when
\* it differs from the text read; a written text is canonical.
writePackageJson(m, t, prod, io) ==
    IF io = "read" THEN [err |-> "PackageError", disk |-> m, wrote |-> FALSE]
    ELSE LET c == computeNext(m, t, prod)
             nextContents == [c.next EXCEPT !.canon = TRUE]
         IN  IF c.err # "none" THEN [err |-> c.err, disk |-> m, wrote |-> FALSE]
             ELSE IF m = nextContents THEN [err |-> "none", disk |-> m, wrote |-> FALSE]
             ELSE [err |-> "none", disk |-> nextContents, wrote |-> TRUE]

\* an export whose value is one path string instead of a conditions object
StringExport(key, p) ==
    [key |-> key, lit |-> TRUE, types |-> NoPath, import |-> NoPath, require |-> NoPath,
     value |-> p]

\* getExports of getPackageJson for one public file: the source path in
\* dev; in prod { import, require } with both formats, else one string
previewExports(e, prod, builds) ==
    LET f == e.file
        rel == f.dir \o <<f.base>>
        esmExport == Path(TRUE, getESMDir, rel, "js")
        cjsExport == Path(TRUE, getCJSDir, rel, "cjs")
    IN  IF ~prod THEN StringExport(ExportKey(e.key), Path(TRUE, getSourceDir, rel, f.ext))
        ELSE IF "esm" \in builds /\ "cjs" \in builds
        THEN ExportEntry(ExportKey(e.key), NoPath, esmExport, cjsExport)
        ELSE IF builds = {"esm"} THEN StringExport(ExportKey(e.key), esmExport)
        ELSE StringExport(ExportKey(e.key), cjsExport)

\* getPackageJson(rootPath, prod): [err, next], the object it returns.  It
\* works on the schema-parsed object of readPackageJson, assigns types with
\* every format and leaves bin as read.
getPackageJson(m, t, prod) ==
    LET pub == getPublicFiles(t, m, <<>>)
        blds == getPackageBuilds(m)
        builds == blds.builds
        publicFiles == filterBinFromPublicFiles(pub.files, getBinFilePaths(m))
        ext == getIndexFileExtension(t, prod)
        devIndex == Path(FALSE, getSourceDir, <<"index">>, ext)
        m0 == [m EXCEPT !.order = SelectSeq(@, LAMBDA k : k \in SchemaKeys)]
        m1 == IF "cjs" \in builds
              THEN [m0 EXCEPT !.main = IF prod THEN Path(FALSE, getCJSDir, <<"index">>, "cjs") ELSE devIndex,
                              !.types = IF prod THEN Path(FALSE, getCJSDir, <<"index">>, "d.ts") ELSE devIndex,
                              !.order = SetKey(SetKey(@, "main"), "types")]
              ELSE m0
        m2 == IF "esm" \in builds
              THEN [m1 EXCEPT !.module = IF prod THEN Path(FALSE, getESMDir, <<"index">>, "js") ELSE devIndex,
                              !.types = IF prod THEN Path(FALSE, getESMDir, <<"index">>, "d.ts") ELSE devIndex,
                              !.order = SetKey(SetKey(@, "module"), "types")]
              ELSE m1
    IN  IF pub.err # "none" THEN [err |-> pub.err, next |-> m]
        ELSE IF blds.err # "none" THEN [err |-> blds.err, next |-> m]
        ELSE [err |-> "none",
              next |-> [m2 EXCEPT !.exports = {previewExports(e, prod, builds) : e \in publicFiles}
                                              \cup {PkgJsonEntry},
                                  !.order = SetKey(@, "exports")]]

\* name.replace(/\/index$/, '')
ProxyName(key) ==
    IF Len(key) > 1 /\ key[Len(key)] = "index" THEN SubSeq(key, 1, Len(key) - 1) ELSE key

\* getProxyFolders: proxy name -> public file key, for every key of
\* getPublicFiles but the root index; {} when classification throws
getProxyFolders(t, m) ==
    LET pub == getPublicFiles(t, m, <<>>)
    IN  IF pub.err # "none" THEN {}
        ELSE {[name |-> ProxyName(e.key), path |-> e.key] : e \in pub.files} \ {[name |-> <<"index">>, path |-> <<"index">>]}

\* getBuildFolders: cjs with main, esm with module, then the proxy names
getBuildFolders(t, m) ==
    (IF Truthy(m, "main") THEN {<<getCJSDir>>} ELSE {})
    \cup (IF Truthy(m, "module") THEN {<<getESMDir>>} ELSE {})
    \cup {x.name : x \in getProxyFolders(t, m)}

\* the directory operations of one call that may throw: at most MaxFailures
Failing(ds) == {k \in SUBSET ds : Cardinality(k) <= MaxFailures}

\* rimraf.sync of the directories rm: what is left of the directories ds
Rimraf(ds, rm) == {d \in ds : ~\E r \in rm : IsPrefix(r, d)}

\* (variant: the build folders removed first, the manifest reverted after)
cleanBuild_RemoveFirst(m, t, io, ds, keep) ==
    LET w == writePackageJson(m, t, FALSE, io)
        left == Rimraf(ds, (getBuildFolders(t, m) \cap ds) \ keep)
    IN  IF w.err # "none"
        THEN [err |-> "PackageError", raised |-> w.err, disk |-> m, wrote |-> FALSE, dirs |-> left]
        ELSE [err |-> "none", raised |-> "none", disk |-> w.disk, wrote |-> w.wrote, dirs |-> left]

\* (variant: a clean that removes the build directories only)
cleanBuild_NoRevert(m, t, io, ds, keep) ==
    [err |-> "none", raised |-> "none", disk |-> m, wrote |-> FALSE,
     dirs |-> Rimraf(ds, (getBuildFolders(t, m) \cap ds) \ keep)]

\* cleanBuild: the dev transform first, then rimraf of every build folder
\* that exists; `keep` are the folders whose removal throws (a warning
\* only).  Every error of the transform becomes a PackageError.
cleanBuild(m, t, io, ds, keep) ==
    LET Cleaned(w) ==
          IF w.err # "none"
          THEN [err |-> "PackageError", raised |-> w.err, disk |-> m, wrote |-> FALSE, dirs |-> ds]
          ELSE [err |-> "none", raised |-> "none", disk |-> w.disk, wrote |-> w.wrote,
                dirs |-> Rimraf(ds, (getBuildFolders(t, w.disk) \cap ds) \ keep)]
    IN  Cleaned(writePackageJson(m, t, FALSE, io))

\* ------------------------------------------------------------ ignore file
\* The ignore file is the sequence of its lines (the text split at "\n"; a
\* text that ends with a newline has an empty last line).  The directory
\* lines of a block are the sorted folder list, a function of the folder
\* set, and stand as one entry.
Line(kind, folders) == [kind |-> kind, folders |-> folders]

\* no .gitignore in the package (read as the empty text)
NoFile == <<>>

Blank == Line("blank", {})
startMarker == Line("start", {})
endMarker == Line("end", {})

\* line.trim() === ''
IsBlank(l) == l.kind \in {"blank", "space"}

\* lines.findIndex(pred): the first position, 0 for -1
FindIndex(lines, kind) ==
    IF \E i \in 1..Len(lines) : lines[i].kind = kind
    THEN CHOOSE i \in 1..Len(lines) :
           lines[i].kind = kind /\ \A j \in 1..(i - 1) : lines[j].kind # kind
    ELSE 0

RECURSIVE PopBlank(_)
PopBlank(lines) ==
    IF lines # <<>> /\ IsBlank(lines[Len(lines)])
    THEN PopBlank(SubSeq(lines, 1, Len(lines) - 1)) ELSE lines

RECURSIVE ShiftBlank(_)
ShiftBlank(lines) ==
    IF lines # <<>> /\ IsBlank(Head(lines)) THEN ShiftBlank(Tail(lines)) ELSE lines

\* result.endsWith('\n')
EndsWithNewline(lines) == Len(lines) >= 2 /\ lines[Len(lines)].kind = "blank"

\* the build artifacts section of makeGitignore
buildArtifactsSection(buildFolders) ==
    <<startMarker, Line("note", {}), Line("dirs", buildFolders), endMarker>>

updateGitignoreWithBuildArtifacts(existingContent, section) ==
    IF \A i \in 1..Len(existingContent) : IsBlank(existingContent[i])
    THEN Append(section, Blank)
    ELSE
      LET lines == existingContent
          startIndex == FindIndex(lines, "start")
          endIndex == FindIndex(lines, "end")
      IN  IF startIndex # 0 /\ endIndex # 0 /\ endIndex > startIndex
          THEN LET beforeSection == PopBlank(SubSeq(lines, 1, startIndex - 1))
                   afterSection == ShiftBlank(SubSeq(lines, endIndex + 1, Len(lines)))
                   result == beforeSection
                             \o (IF beforeSection # <<>> THEN <<Blank>> ELSE <<>>)
                             \o section
                             \o (IF afterSection # <<>> THEN <<Blank>> \o afterSection ELSE <<>>)
               IN  IF EndsWithNewline(result) THEN result ELSE Append(result, Blank)
          ELSE PopBlank(existingContent) \o <<Blank>> \o section \o <<Blank>>

\* makeGitignore: nothing is written without build folders; an error (io
\* = "read") is caught and reported
makeGitignore(g, t, m, io) ==
    LET buildFolders == getBuildFolders(t, m)
    IN  IF buildFolders = {} \/ io = "read" THEN g
        ELSE updateGitignoreWithBuildArtifacts(g, buildArtifactsSection(buildFolders))

\* ------------------------------------------------------- initial manifests
BinTargets ==
    { Path(TRUE, "src", <<"cli">>, "js"),
      Path(TRUE, "src", <<"cmd", "run">>, "cjs"),
      Path(TRUE, "src", <<"cmd", "dev">>, "ts") }

BinEntryOf(p) == [name |-> p.segs[Len(p.segs)], path |-> p]

Bins ==
    {BinNone} \cup {BinStr(p) : p \in BinTargets}
    \cup {BinMap({BinEntryOf(p) : p \in ps}) :
            ps \in {q \in SUBSET BinTargets : q # {} /\ Cardinality(q) <= MaxBins}}

OtherValues == [name |-> "pkg", version |-> "1.0.0", sideEffects |-> "false", typings |-> "index.d.ts"]

\* a manifest as its author keeps it: which of main / module / types /
\* typings / bin it declares, and one of two layouts of the file
Authored(hasMain, hasModule, typesKind, bin, layout) ==
    LET present(k) == CASE k = "main" -> hasMain
                        [] k = "module" -> hasModule
                        [] k = "types" -> typesKind = "types"
                        [] k = "typings" -> typesKind = "typings"
                        [] k = "bin" -> bin.kind # "none"
                        [] k = "exports" -> layout = "generated"
                        [] OTHER -> TRUE
        keys == IF layout = "authored"
                THEN <<"name", "version", "main", "sideEffects", "module", "types", "typings", "bin">>
                ELSE <<"name", "main", "module", "types", "typings", "bin", "exports", "sideEffects", "version">>
    IN  [canon   |-> layout = "generated",
         order   |-> SelectSeq(keys, present),
         rest    |-> OtherValues,
         main    |-> IF hasMain THEN Path(FALSE, "cjs", <<"index">>, "cjs") ELSE NoPath,
         module  |-> IF hasModule THEN Path(FALSE, "esm", <<"index">>, "js") ELSE NoPath,
         types   |-> IF typesKind = "types" THEN Path(FALSE, "esm", <<"index">>, "d.ts") ELSE NoPath,
         bin     |-> bin,
         exports |-> IF layout = "generated" THEN {PkgJsonEntry} ELSE {}]

Manifests ==
    { Authored(a, b, k, bin, l) :
        a \in BOOLEAN, b \in BOOLEAN, k \in {"none", "types", "typings"},
        bin \in Bins, l \in {"authored", "generated"} }

\* ------------------------------------------------------------------ state
\* the last operation on the manifest (dev and prod are the two modes of
\* writePackageJson; clean and devCommand are the commands of that name),
\* whether it returned, whether it wrote
\* raised is the class of the error as thrown inside the command, err the
\* class of the error that reaches the command's catch block
NoCall == [op |-> "none", ok |-> TRUE, wrote |-> FALSE, raised |-> "none", err |-> "none"]
Call(op, w, raised) ==
    [op |-> op, ok |-> w.err = "none", wrote |-> w.wrote, raised |-> raised, err |-> w.err]

NoBuild ==
    [todo |-> <<>>, done |-> {}, failedAt |-> "none", err |-> "none",
     compTried |-> FALSE, compOk |-> FALSE, startDev |-> FALSE,
     proxies |-> {}, proxyFail |-> FALSE, proxyPkgs |-> {}]

IOs == {"ok", "read"}

\* paths that point into a build output directory / into the source tree
InBuildDir(p) == p.dir \in {getCJSDir, getESMDir}
InSrcDir(p) == p.dir = getSourceDir

\* development shape: every entry point the transform manages points into
\* src/, and no bin path begins with ./cjs/ or ./esm/
DevShape(m) ==
    /\ HasKey(m, "exports")
    /\ \A k \in {"main", "module", "types"} : HasKey(m, k) => InSrcDir(m[k])
    /\ \A e \in m.exports : ~e.lit =>
          \A c \in {"types", "import", "require"} : Absent(e[c]) \/ InSrcDir(e[c])
    /\ \A e \in m.bin.entries : ~StartsWithDot(e.path, {getCJSDir, getESMDir})

\* production shape: the managed entry points point into cjs/ or esm/
ProdShape(m) ==
    /\ HasKey(m, "exports")
    /\ \A k \in {"main", "module"} : HasKey(m, k) => InBuildDir(m[k])
    /\ \A e \in m.exports : ~e.lit =>
          \A c \in {"types", "import", "require"} : Absent(e[c]) \/ InBuildDir(e[c])
    /\ \E e \in m.exports : ~e.lit

\* every bin path of an authored manifest names a file of the source tree
BinTargetsExist(m, t) ==
    \A e \in m.bin.entries :
       File(SubSeq(e.path.segs, 1, Len(e.path.segs) - 1), e.path.segs[Len(e.path.segs)], e.path.ext) \in t

Init ==
    /\ tree \in Trees
    /\ disk \in Manifests
    /\ BinTargetsExist(disk, tree)
    /\ last = NoCall
    /\ pc = "idle"
    /\ build = NoBuild
    /\ dirs = {}
    /\ events = <<>>
    /\ gitignore = NoFile

\* ------------------------------------------------------- transform calls
\* toDev(path): writePackageJson(rootPath, false)
ToDev ==
    /\ pc = "idle"
    /\ \E io \in IOs :
         LET w == writePackageJson(disk, tree, FALSE, io)
         IN  /\ disk' = w.disk
             /\ last' = Call("dev", w, w.err)
    /\ UNCHANGED <<tree, pc, build, dirs, events, gitignore>>

\* toProd(path): writePackageJson(rootPath, true)
ToProd ==
    /\ pc = "idle"
    /\ \E io \in IOs :
         LET w == writePackageJson(disk, tree, TRUE, io)
         IN  /\ disk' = w.disk
             /\ last' = Call("prod", w, w.err)
    /\ UNCHANGED <<tree, pc, build, dirs, events, gitignore>>

\* cleanCommand: cleanBuild(packagePath); the error is reported and rethrown
CleanCommand ==
    /\ pc = "idle"
    /\ \E io \in IOs, keep \in Failing(dirs) :
         LET Return(c) ==
               /\ disk' = c.disk
               /\ dirs' = c.dirs
               /\ last' = Call("clean", c, c.raised)
         IN  Return(cleanBuild(disk, tree, io, dirs, keep))
    /\ UNCHANGED <<tree, pc, build, events, gitignore>>

\* processCurrentPackage of the dev command: a pure CLI package is skipped;
\* every error becomes a PackageError
processCurrentPackage(m, t, io) ==
    IF io = "read"
    THEN [called |-> FALSE, err |-> "PackageError", raised |-> "ConfigurationError", disk |-> m, wrote |-> FALSE]
    ELSE IF ~shouldProcessInDev(m)
    THEN [called |-> FALSE, err |-> "none", raised |-> "none", disk |-> m, wrote |-> FALSE]
    ELSE LET Processed(w) ==
               [called |-> TRUE, err |-> IF w.err = "none" THEN "none" ELSE "PackageError",
                raised |-> w.err, disk |-> w.disk, wrote |-> w.wrote]
         IN  Processed(writePackageJson(m, t, FALSE, "ok"))

DevCommand ==
    /\ pc = "idle"
    /\ \E io \in IOs :
         LET Return(r) ==
               /\ disk' = r.disk
               /\ last' = Call("devCommand", r, r.raised)
         IN  Return(processCurrentPackage(disk, tree, io))
    /\ UNCHANGED <<tree, pc, build, dirs, events, gitignore>>

\* ------------------------------------------------------------ buildCommand
\* pc is the step buildCommand executes next.  `build` is the record of the
\* running build: the formats still to bundle, the steps completed, the step
\* that threw, the origin of the error held by the catch block, and what
\* became of the compensating dev transform.
Throw(step) == [build EXCEPT !.failedAt = step, !.err = step]

\* Step 1: cleanBuild(packagePath)
StepClean ==
    /\ pc = "idle"
    /\ \E io \in IOs :
         LET b == [NoBuild EXCEPT !.startDev = DevShape(disk)]
             Cleaned(c) ==
               /\ disk' = c.disk
               /\ dirs' = c.dirs
               /\ last' = Call("dev", c, c.raised)
               /\ IF c.err = "none"
                  THEN pc' = "analyze" /\ build' = [b EXCEPT !.done = {"clean"}]
                  ELSE pc' = "catch" /\ build' = [b EXCEPT !.failedAt = "clean", !.err = "clean"]
         IN  Cleaned(cleanBuild(disk, tree, io, dirs, {}))
    /\ UNCHANGED <<tree, events, gitignore>>

\* Step 2: getSourcePath, getAllBuildFiles, getPackageBuilds; Object.entries
\* of the plan lists cjs before esm
PlanOrder(builds) ==
    (IF "cjs" \in builds THEN <<"cjs">> ELSE <<>>) \o (IF "esm" \in builds THEN <<"esm">> ELSE <<>>)

StepAnalyze ==
    /\ pc = "analyze"
    /\ \E fail \in BOOLEAN :
         LET entry == getAllBuildFiles(tree, disk, <<>>)
             blds == getPackageBuilds(disk)
         IN  IF fail \/ entry.err # "none" \/ blds.err # "none"
             THEN pc' = "catch" /\ build' = Throw("analyze")
             ELSE /\ pc' = "mkdir"
                  /\ build' = [build EXCEPT !.todo = PlanOrder(blds.builds),
                                            !.done = @ \cup {"analyze"}]
    /\ UNCHANGED <<tree, disk, last, dirs, events, gitignore>>

\* Step 3: mkdir of every build directory of the plan; step 4 runs only with
\* a types or typings field
StepMkdir ==
    /\ pc = "mkdir"
    /\ \E fail \in BOOLEAN :
         IF fail
         THEN pc' = "catch" /\ build' = Throw("mkdir") /\ dirs' = dirs
         ELSE /\ pc' = IF hasTypesField(disk) THEN "tsc" ELSE "bundle"
              /\ build' = [build EXCEPT !.done = @ \cup {"mkdir"}]
              /\ dirs' = dirs \cup {<<f>> : f \in SeqRange(build.todo)}
    /\ UNCHANGED <<tree, disk, last, events, gitignore>>

\* Step 4: runTypeScriptCompilation; step 5 (loadTsupConfiguration) catches
\* its own errors and cannot throw
StepTsc ==
    /\ pc = "tsc"
    /\ \E fail \in BOOLEAN :
         IF fail
         THEN pc' = "catch" /\ build' = Throw("tsc")
         ELSE pc' = "bundle" /\ build' = [build EXCEPT !.done = @ \cup {"tsc"}]
    /\ UNCHANGED <<tree, disk, last, dirs, events, gitignore>>

\* (variant: the bundler runs of all formats started together, as with
\* Promise.all; a run that rejects does not stop the others)
StepBundle_Concurrent ==
    /\ pc = "bundle"
    /\ build.todo # <<>>
    /\ \E ok \in SUBSET SeqRange(build.todo) :
         IF ok # SeqRange(build.todo)
         THEN /\ pc' = "catch"
              /\ build' = [Throw("bundle") EXCEPT !.done = @ \cup ok]
         ELSE /\ pc' = "meta"
              /\ build' = [build EXCEPT !.todo = <<>>, !.done = @ \cup ok]
    /\ UNCHANGED <<tree, disk, last, dirs, events, gitignore>>

\* Step 6: one awaited bundler run per format, in plan order
StepBundle ==
    /\ pc = "bundle"
    /\ build.todo # <<>>
    /\ \E fail \in BOOLEAN :
         IF fail
         THEN pc' = "catch" /\ build' = Throw("bundle")
         ELSE /\ build' = [build EXCEPT !.todo = Tail(@), !.done = @ \cup {Head(build.todo)}]
              /\ pc' = IF Tail(build.todo) = <<>> THEN "meta" ELSE "bundle"
    /\ UNCHANGED <<tree, disk, last, dirs, events, gitignore>>

\* a path of a proxy manifest: `up` times "../", then dir/segs.ext
ProxyPath(up, dir, segs, ext) == [up |-> up, dir |-> dir, segs |-> segs, ext |-> ext]
NoProxyPath == ProxyPath(0, "", <<>>, "")

\* generateProxyPackageJson: module and types with esm in the plan, then
\* main and types (again) with cjs in the plan
generateProxyPackageJson(m, moduleName, path) ==
    LET builds == getPackageBuilds(m).builds
        up == Len(moduleName)
        p0 == [name |-> moduleName, module |-> NoProxyPath, main |-> NoProxyPath,
               types |-> NoProxyPath]
        p1 == IF "esm" \in builds
              THEN [p0 EXCEPT !.module = ProxyPath(up, getESMDir, path, "js"),
                              !.types = ProxyPath(up, getESMDir, path, "d.ts")]
              ELSE p0
    IN  IF "cjs" \in builds
        THEN [p1 EXCEPT !.main = ProxyPath(up, getCJSDir, path, "cjs"),
                        !.types = ProxyPath(up, getCJSDir, path, "d.ts")]
        ELSE p1

\* makeProxies: one directory with a proxy manifest per proxy folder;
\* `failed` are the proxies whose creation throws (a warning only)
makeProxies(t, m, ds, failed) ==
    LET names == {x.name : x \in getProxyFolders(t, m)}
    IN  [created |-> names \ failed, dirs |-> ds \cup (names \ failed),
         manifests |-> {generateProxyPackageJson(m, x.name, x.path) :
                           x \in {y \in getProxyFolders(t, m) : y.name \notin failed}}]

\* Step 7: makeGitignore and makeProxies catch their own errors
StepMeta ==
    /\ pc = "meta"
    /\ pc' = "finalize"
    /\ gitignore' = makeGitignore(gitignore, tree, disk, "ok")
    /\ \E failed \in Failing({x.name : x \in getProxyFolders(tree, disk)}) :
         LET r == makeProxies(tree, disk, dirs, failed)
         IN  /\ dirs' = r.dirs
             /\ build' = [build EXCEPT !.done = @ \cup {"meta"},
                                       !.proxies = r.created,
                                       !.proxyPkgs = r.manifests,
                                       !.proxyFail = failed # {}]
    /\ UNCHANGED <<tree, disk, last, events>>

\* Step 8: writePackageJson(packagePath, true); when it throws, the inner
\* catch runs writePackageJson(packagePath, false) and rethrows finalError,
\* unless that revert throws first
StepFinalize ==
    /\ pc = "finalize"
    /\ \E io1 \in IOs, io2 \in IOs :
         LET w == writePackageJson(disk, tree, TRUE, io1)
             r == writePackageJson(disk, tree, FALSE, io2)
         IN  IF w.err = "none"
             THEN /\ disk' = w.disk
                  /\ last' = Call("prod", w, w.err)
                  /\ pc' = "ok"
                  /\ build' = [build EXCEPT !.done = @ \cup {"finalize"}]
             ELSE /\ disk' = r.disk
                  /\ last' = Call("dev", r, r.err)
                  /\ pc' = "catch"
                  /\ build' = [build EXCEPT !.failedAt = "finalize",
                                            !.err = IF r.err = "none" THEN "finalize" ELSE "revert",
                                            !.compTried = TRUE,
                                            !.compOk = r.err = "none"]
    /\ UNCHANGED <<tree, dirs, events, gitignore>>

\* (variant: a catch block that reports and rethrows only)
StepCatch_NoRevert ==
    /\ pc = "catch"
    /\ pc' = "failed"
    /\ UNCHANGED <<tree, disk, last, build, dirs, events, gitignore>>

\* the outer catch: writePackageJson(packagePath, false) inside its own
\* try/catch, then the caught error is rethrown
StepCatch ==
    /\ pc = "catch"
    /\ \E io \in IOs :
         LET r == writePackageJson(disk, tree, FALSE, io)
         IN  /\ disk' = r.disk
             /\ last' = Call("dev", r, r.err)
             /\ build' = [build EXCEPT !.compTried = TRUE, !.compOk = @ \/ r.err = "none"]
    /\ pc' = "failed"
    /\ UNCHANGED <<tree, dirs, events, gitignore>>

\* buildCommand has returned or thrown; the next command may start
BuildExit ==
    /\ pc \in {"ok", "failed"}
    /\ pc' = "idle"
    /\ build' = NoBuild
    /\ UNCHANGED <<tree, disk, last, dirs, events, gitignore>>

Next ==
    \/ ToDev
    \/ ToProd
    \/ StepClean
    \/ StepAnalyze
    \/ StepMkdir
    \/ StepTsc
    \/ StepBundle
    \/ StepMeta
    \/ StepFinalize
    \/ StepCatch
    \/ BuildExit

Spec == Init /\ [][Next]_vars

\* ------------------------------------------- the clean and dev commands
\* the directories a completed build of the package has left: one per
\* format of the plan and one per proxy
Built(t, m) ==
    {<<f>> : f \in getPackageBuilds(m).builds} \cup {x.name : x \in getProxyFolders(t, m)}

InitCommands ==
    /\ tree \in Trees
    /\ disk \in Manifests
    /\ BinTargetsExist(disk, tree)
    /\ last = NoCall
    /\ pc = "idle"
    /\ build = NoBuild
    /\ dirs \in {{}, Built(tree, disk)}
    /\ events = <<>>
    /\ gitignore = NoFile

NextCommands ==
    \/ CleanCommand
    \/ DevCommand

SpecCommands == InitCommands /\ [][NextCommands]_vars

\* --------------------------------- source trees with deeper directories
\* an empty directory d of the source tree: an entry of d that is no file
EmptyDir(d) == File(d, "", "")

\* files two directories deep, a test file, a file that is no source file
\* and an empty directory
DeepUniverse ==
    { File(<<>>, "index", "ts"),
      File(<<>>, "cli", "js"),
      File(<<"cmd">>, "run", "cjs"),
      File(<<"cmd", "sub">>, "deep", "ts"),
      File(<<"lib">>, "util.test", "ts"),
      File(<<"lib">>, "notes", "md"),
      EmptyDir(<<"tmp">>) }

DeepTrees == {t \in SUBSET DeepUniverse : Cardinality(t) <= MaxFiles}

InitDeep ==
    /\ tree \in DeepTrees
    /\ disk \in Manifests
    /\ BinTargetsExist(disk, tree)
    /\ last = NoCall
    /\ pc = "idle"
    /\ build = NoBuild
    /\ dirs = {}
    /\ events = <<>>
    /\ gitignore = NoFile

NextDeep ==
    \/ ToDev
    \/ ToProd

SpecDeep == InitDeep /\ [][NextDeep]_vars

\* ------------------------------- bin paths outside src/, cjs/ and esm/
OutsideTargets ==
    { Path(TRUE, "bin", <<"cli">>, "js"),
      Path(TRUE, "bin", <<"run">>, "cjs"),
      Path(FALSE, "src", <<"cli">>, "js") }

OutsideBins ==
    {BinStr(p) : p \in OutsideTargets}
    \cup {BinMap({BinEntryOf(p) : p \in ps}) :
            ps \in {q \in SUBSET OutsideTargets : q # {} /\ Cardinality(q) <= MaxBins}}

InitBin ==
    /\ tree \in Trees
    /\ disk \in { Authored(a, b, k, bin, l) :
                    a \in BOOLEAN, b \in BOOLEAN, k \in {"none", "types"},
                    bin \in OutsideBins, l \in {"authored", "generated"} }
    /\ last = NoCall
    /\ pc = "idle"
    /\ build = NoBuild
    /\ dirs = {}
    /\ events = <<>>
    /\ gitignore = NoFile

NextBin ==
    \/ ToDev
    \/ ToProd

SpecBin == InitBin /\ [][NextBin]_vars

\* ------------------------------ clean in a package that was never built
\* directories the author of the package keeps beside src/
UserDirs == {<<"cli">>, <<"cmd">>, <<"docs">>}

\* no build has run: every directory of the package root is the author's
InitClean ==
    /\ tree \in Trees
    /\ disk \in Manifests
    /\ BinTargetsExist(disk, tree)
    /\ last = NoCall
    /\ pc = "idle"
    /\ build = NoBuild
    /\ dirs \in SUBSET UserDirs
    /\ events = <<>>
    /\ gitignore = NoFile

NextClean == CleanCommand

SpecClean == InitClean /\ [][NextClean]_vars

\* ---------------------------------------------------- dev watch mode
SourceDirs == {f.dir : f \in FileUniverse} \ {<<>>}

SourceFiles(t) == t \cap FileUniverse

\* the tree once file f is gone: its directory stays, empty when f was its
\* last entry
Unlinked(t, f) ==
    LET rest == t \ {f}
    IN  IF f.dir # <<>> /\ FilesUnder(rest, f.dir) = {} THEN rest \cup {EmptyDir(f.dir)} ELSE rest

\* devCommand with --watch: processCurrentPackage, then startWatchMode
StartWatch ==
    /\ pc = "idle"
    /\ \E io \in IOs :
         LET Started(r) ==
               /\ disk' = r.disk
               /\ last' = Call("devCommand", r, r.raised)
               /\ pc' = IF r.err = "none" THEN "watching" ELSE "exited"
         IN  Started(processCurrentPackage(disk, tree, io))
    /\ UNCHANGED <<tree, build, dirs, events, gitignore>>

\* a file appears under src/: the watcher emits 'add'
AddFile ==
    /\ pc = "watching" /\ Len(events) < MaxEvents
    /\ Cardinality(SourceFiles(tree)) < MaxFiles
    /\ \E f \in FileUniverse \ tree :
         /\ tree' = (tree \ {EmptyDir(f.dir)}) \cup {f}
         /\ events' = Append(events, "add")
    /\ UNCHANGED <<disk, last, pc, build, dirs, gitignore>>

\* a file disappears: the watcher emits 'unlink'
UnlinkFile ==
    /\ pc = "watching" /\ Len(events) < MaxEvents
    /\ \E f \in SourceFiles(tree) :
         /\ tree' = Unlinked(tree, f)
         /\ events' = Append(events, "unlink")
    /\ UNCHANGED <<disk, last, pc, build, dirs, gitignore>>

\* a directory is created: 'addDir', for which no handler is registered
AddDir ==
    /\ pc = "watching"
    /\ \E d \in SourceDirs :
         /\ FilesUnder(tree, d) = {}
         /\ tree' = tree \cup {EmptyDir(d)}
    /\ UNCHANGED <<disk, last, pc, build, dirs, events, gitignore>>

\* an empty directory is removed: the watcher emits 'unlinkDir'
UnlinkDir ==
    /\ pc = "watching" /\ Len(events) < MaxEvents
    /\ \E d \in SourceDirs :
         /\ EmptyDir(d) \in tree
         /\ tree' = tree \ {EmptyDir(d)}
         /\ events' = Append(events, "unlinkDir")
    /\ UNCHANGED <<disk, last, pc, build, dirs, gitignore>>

\* processFileChange of startWatchMode: a package that is not processed in
\* dev is ignored; an error of the transform is caught and reported
processFileChange(m, t, io) ==
    IF io = "read" \/ ~shouldProcessInDev(m)
    THEN [ignored |-> TRUE, err |-> "none", raised |-> "none", disk |-> m, wrote |-> FALSE]
    ELSE LET Processed(w) ==
               [ignored |-> FALSE, err |-> "none", raised |-> w.err, disk |-> w.disk,
                wrote |-> w.wrote]
         IN  Processed(writePackageJson(m, t, FALSE, "ok"))

\* the watcher delivers the oldest pending event to its handler: 'add' and
\* 'unlink' run processFileChange, 'unlinkDir' is logged
HandleEvent ==
    /\ pc = "watching" /\ events # <<>>
    /\ events' = Tail(events)
    /\ IF Head(events) = "unlinkDir"
       THEN UNCHANGED <<disk, last>>
       ELSE \E io \in IOs :
              LET Handled(r) ==
                    /\ disk' = r.disk
                    /\ last' = Call(IF r.ignored THEN "ignored" ELSE "processFileChange",
                                     r, r.raised)
              IN  Handled(processFileChange(disk, tree, io))
    /\ UNCHANGED <<tree, pc, build, dirs, gitignore>>

NextWatch ==
    \/ StartWatch
    \/ AddFile
    \/ UnlinkFile
    \/ AddDir
    \/ UnlinkDir
    \/ HandleEvent

SpecWatch == Init /\ [][NextWatch]_vars

\* ------------------------------------------- the ignore file of a package
\* the lines a .gitignore found in the package may hold
IgnoreLines ==
    { Line("text", {}), Blank, Line("space", {}), startMarker, endMarker,
      Line("dirs", {<<getCJSDir>>}) }

RECURSIVE SeqsUpTo(_, _)
SeqsUpTo(S, n) ==
    IF n = 0 THEN {<<>>}
    ELSE LET shorter == SeqsUpTo(S, n - 1)
         IN  shorter \cup {Append(q, x) : q \in {r \in shorter : Len(r) = n - 1}, x \in S}

IgnoreFiles == SeqsUpTo(IgnoreLines, MaxLines)

InitIgnore ==
    /\ tree \in Trees
    /\ disk \in {m \in Manifests : m.bin = BinNone /\ ~m.canon /\ ~hasTypesField(m)}
    /\ last = NoCall
    /\ pc = "idle"
    /\ build = NoBuild
    /\ dirs = {}
    /\ events = <<>>
    /\ gitignore \in IgnoreFiles

\* makeGitignore(packagePath), as step 7 of a build runs it (runs are
\* followed while the file is shorter than 2 * MaxLines)
MakeGitignore ==
    /\ pc = "idle"
    /\ Len(gitignore) < 2 * MaxLines
    /\ \E io \in IOs :
         /\ gitignore' = makeGitignore(gitignore, tree, disk, io)
         /\ last' = Call("gitignore",
                         [err |-> "none",
                          wrote |-> io = "ok" /\ getBuildFolders(tree, disk) # {}], "none")
    /\ UNCHANGED <<tree, disk, pc, build, dirs, events>>

NextIgnore == MakeGitignore

SpecIgnore == InitIgnore /\ [][NextIgnore]_vars

\* ================================================================ claims
Touched == {"main", "module", "types", "bin", "exports"}

NonLit(m) == {e \in m.exports : ~e.lit}

\* the shape of an exports map: its keys and, per key, which conditions exist
Shape(exports) ==
    { [key |-> e.key, lit |-> e.lit, types |-> ~Absent(e.types),
       import |-> ~Absent(e.import), require |-> ~Absent(e.require)] : e \in exports }

\* the source file (path under src/, extension removed) a bin path refers to
BinRefs(m) == {e.path.segs : e \in {x \in m.bin.entries : x.path.dir \in {"src", "cjs", "esm"}}}

\* the source file an export entry was made from
EntryRel(e) ==
    IF ~Absent(e.import) THEN e.import.segs
    ELSE IF ~Absent(e.require) THEN e.require.segs
    ELSE e.types.segs

\* C1: after a successful dev transform, a second dev transform of the same
\* tree performs no write
C1_DevIdempotent ==
    (last.op = "dev" /\ last.ok) => ~writePackageJson(disk, tree, FALSE, "ok").wrote

\* C2: for a manifest left by a successful dev transform, toProd followed by
\* toDev gives an exports map with the same keys and, per key, the same
\* conditions
C2_RoundTripShape ==
    (last.op = "dev" /\ last.ok) =>
       LET p == writePackageJson(disk, tree, TRUE, "ok")
           d == writePackageJson(p.disk, tree, FALSE, "ok")
       IN  (p.err = "none" /\ d.err = "none") => Shape(d.disk.exports) = Shape(disk.exports)

\* C3: a transform never adds a top-level types field or a types condition
\* to a manifest read without a types field, and in a manifest with a types
\* field every export entry with import or require has types
C3_StickyStep ==
    ~HasKey(disk, "types") =>
       /\ ~HasKey(disk', "types")
       /\ \A e \in disk'.exports : Absent(e.types)

C3_TypedEntries ==
    HasKey(disk, "types") =>
       \A e \in NonLit(disk) : (~Absent(e.import) \/ ~Absent(e.require)) => ~Absent(e.types)

C3_TypesSticky == [][C3_StickyStep]_vars /\ []C3_TypedEntries

C3_Witness ==
    /\ last.op = "prod" /\ last.wrote
    /\ ~HasKey(disk, "types") /\ HasKey(disk, "typings")
    /\ \E e \in NonLit(disk) : ~Absent(e.import) /\ ~Absent(e.require)

\* C4: in a manifest a transform has produced, no export entry is made from
\* a source file that a bin entry refers to
C4_BinExcluded ==
    (last.op # "none" /\ last.ok) => \A e \in NonLit(disk) : EntryRel(e) \notin BinRefs(disk)

\* C5: a failed build has attempted the dev transform before it propagates
\* the error; when that transform succeeded the manifest is in development
\* shape; and a build that started from a development-shape manifest and
\* failed leaves a development-shape manifest
C5_FailureCompensated ==
    pc = "failed" =>
       /\ build.compTried
       /\ build.failedAt # "none"
       /\ build.compOk => DevShape(disk)
       /\ build.startDev => DevShape(disk)

C5_Witness ==
    /\ pc = "failed" /\ build.compOk /\ ~build.startDev
    /\ build.failedAt \in {"clean", "bundle"}
    /\ last.op = "dev" /\ last.wrote

\* C6: inside a build the manifest is in development shape from the end of
\* the clean step until toProd, and toProd runs only once the clean step,
\* the bundler run of every format of the plan and the metadata step are done
RequiredBeforeProd(m) == {"clean", "meta"} \cup getPackageBuilds(m).builds

C6_MidBuild ==
    /\ pc \in {"analyze", "mkdir", "tsc", "bundle", "meta", "finalize"} => DevShape(disk)
    /\ pc \in {"finalize", "ok"} => RequiredBeforeProd(disk) \subseteq build.done

C6_ProdStep ==
    (pc # "idle" /\ last' # last /\ last'.op = "prod") =>
       /\ pc = "finalize"
       /\ RequiredBeforeProd(disk) \subseteq build.done
       /\ DevShape(disk)

C6_ProdOnlyOnSuccess == []C6_MidBuild /\ [][C6_ProdStep]_vars

C6_Witness ==
    /\ pc = "ok" /\ ProdShape(disk) /\ last.op = "prod" /\ last.wrote
    /\ {"clean", "cjs", "esm", "meta", "tsc"} \subseteq build.done
    /\ ~build.startDev

\* C7: a transform that raises leaves the manifest as it was, and the
\* manifest changes only by the one write of a completely computed text
C7_WriteStep ==
    /\ (last' # last /\ ~last'.ok) => disk' = disk
    /\ disk' # disk =>
          /\ last'.ok /\ last'.wrote
          /\ disk'.canon
          /\ PkgJsonEntry \in disk'.exports /\ HasKey(disk', "exports")
          /\ \A e \in NonLit(disk') : ~Absent(e.import) \/ ~Absent(e.require)

C7_NoPartialWrite == [][C7_WriteStep]_vars

\* a call that got through classification and failed in the derivation of
\* the build plan
C7_Witness ==
    /\ last.op # "none" /\ ~last.ok
    /\ getPublicFiles(tree, disk, <<>>).err = "none"
    /\ getPackageBuilds(disk).err = "ConfigurationError"

\* C8: the plan holds cjs exactly when main is set, esm exactly when module
\* is set or bin is set with neither main nor module, nothing else, and the
\* derivation raises ConfigurationError exactly when none of the three is set
C8_BuildPlan ==
    LET r == getPackageBuilds(disk)
        hasMain == HasKey(disk, "main")
        hasModule == HasKey(disk, "module")
        hasBin == HasKey(disk, "bin")
    IN  /\ (r.err = "ConfigurationError") <=> (~hasMain /\ ~hasModule /\ ~hasBin)
        /\ r.err \in {"none", "ConfigurationError"}
        /\ r.err = "none" =>
              /\ ("cjs" \in r.builds) <=> hasMain
              /\ ("esm" \in r.builds) <=> (hasModule \/ (~hasMain /\ ~hasModule /\ hasBin))
              /\ r.builds \subseteq {"cjs", "esm"}

C8_Witness ==
    /\ HasKey(disk, "bin") /\ HasKey(disk, "main") /\ ~HasKey(disk, "module")
    /\ getPackageBuilds(disk).builds = {"cjs"}
    /\ last.op = "prod" /\ last.ok

\* C9: for a library package, a source directory whose source files are all
\* referred to by bin (a string or a mapping) has no key in publicFiles and
\* all its keys in buildFiles
AllDirs(t) == UNION {{SubSeq(f.dir, 1, n) : n \in 1..Len(f.dir)} : f \in t}

C9_DirSwallowed ==
    \A d \in AllDirs(tree) :
       ( /\ shouldProcessInDev(disk)
         /\ \A f \in FilesUnder(tree, d) :
               f.ext \in SourceExts => (f.dir \o <<f.base>>) \in BinRefs(disk) )
       => LET pub == getPublicFiles(tree, disk, <<>>)
              bld == getAllBuildFiles(tree, disk, <<>>)
          IN  (pub.err = "none" /\ bld.err = "none") =>
                 /\ \A e \in pub.files : ~IsPrefix(d, e.file.dir)
                 /\ \A f \in FilesUnder(tree, d) : Entry(f) \in bld.files

\* C10: a transform leaves every top-level key other than main, module,
\* types, bin and exports with its value and in its relative order
Untouched(order) == SelectSeq(order, LAMBDA k : k \notin Touched)

C10_FrameStep ==
    /\ Untouched(disk'.order) = Untouched(disk.order)
    /\ disk'.rest = disk.rest

C10_Frame == [][C10_FrameStep]_vars

C10_Witness ==
    /\ last.wrote
    /\ \E i, j, k \in 1..Len(disk.order) :
          /\ i < j /\ j < k
          /\ disk.order[i] = "main" /\ disk.order[j] = "sideEffects" /\ disk.order[k] = "exports"

\* a transform call has just returned normally
Returned == last' # last /\ last'.ok

\* C11: in every export entry a transform writes, types is present exactly
\* when the manifest read had a types field (a typings field does not
\* count), import exactly when the plan holds esm, require exactly when the
\* plan holds cjs
C11_PresenceStep ==
    Returned =>
       LET builds == getPackageBuilds(disk).builds
       IN  \A e \in NonLit(disk') :
              /\ ~Absent(e.types) <=> HasKey(disk, "types")
              /\ ~Absent(e.import) <=> "esm" \in builds
              /\ ~Absent(e.require) <=> "cjs" \in builds

C11_ConditionPresence == [][C11_PresenceStep]_vars

\* C11 as stated: types present exactly when the manifest read had a types
\* or a typings field
C11_AsStatedStep ==
    Returned =>
       LET builds == getPackageBuilds(disk).builds
       IN  \A e \in NonLit(disk') :
              /\ ~Absent(e.types) <=> hasTypesField(disk)
              /\ ~Absent(e.import) <=> "esm" \in builds
              /\ ~Absent(e.require) <=> "cjs" \in builds

C11_AsStated == [][C11_AsStatedStep]_vars

C11_Witness ==
    /\ last.op = "prod" /\ last.wrote
    /\ HasKey(disk, "typings") /\ ~HasKey(disk, "types")
    /\ \E e \in NonLit(disk) : ~Absent(e.import) /\ Absent(e.require) /\ Absent(e.types)

\* the public files a transform of manifest m exports: classification, then
\* the bin filter
Exported(t, m) == filterBinFromPublicFiles(getPublicFiles(t, m, <<>>).files, getBinFilePaths(m))

RelOf(f) == f.dir \o <<f.base>>

\* C12: toProd writes, for every public file <rel>, import ./esm/<rel>.js
\* with an esm build, require ./cjs/<rel>.cjs with a cjs build, types (when
\* present) the .d.ts under esm with an esm build and under cjs otherwise;
\* main cjs/index.cjs, module esm/index.js, types index.d.ts of the
\* preferred directory
C12_ProdStep ==
    (Returned /\ last'.op = "prod") =>
       LET builds == getPackageBuilds(disk).builds
           pref == IF "esm" \in builds THEN getESMDir ELSE getCJSDir
       IN  /\ \A p \in Exported(tree, disk) :
                 \E x \in NonLit(disk') :
                    /\ x.key = ExportKey(p.key)
                    /\ "esm" \in builds => x.import = Path(TRUE, "esm", RelOf(p.file), "js")
                    /\ "cjs" \in builds => x.require = Path(TRUE, "cjs", RelOf(p.file), "cjs")
                    /\ ~Absent(x.types) => x.types = Path(TRUE, pref, RelOf(p.file), "d.ts")
           /\ "cjs" \in builds => disk'.main = Path(FALSE, "cjs", <<"index">>, "cjs")
           /\ "esm" \in builds => disk'.module = Path(FALSE, "esm", <<"index">>, "js")
           /\ HasKey(disk', "types") => disk'.types = Path(FALSE, pref, <<"index">>, "d.ts")

C12_ProdValues == [][C12_ProdStep]_vars

C12_Witness ==
    /\ last.op = "prod" /\ last.wrote
    /\ HasKey(disk, "types") /\ HasKey(disk, "main") /\ HasKey(disk, "module")
    /\ disk.types = Path(FALSE, "esm", <<"index">>, "d.ts")
    /\ \E x \in NonLit(disk) :
          /\ x.key = <<"cmd", "run">>
          /\ x.types = Path(TRUE, "esm", <<"cmd", "run">>, "d.ts")
          /\ x.require = Path(TRUE, "cjs", <<"cmd", "run">>, "cjs")

Conditions == {"types", "import", "require"}

\* C13: toDev writes, for every public file, an export entry whose
\* conditions all hold one value: ./src/<path of the file on disk>, with the
\* extension the file has
C13_DevStep ==
    (Returned /\ last'.op = "dev") =>
       \A p \in Exported(tree, disk) :
          /\ existsSync(tree, p.file)
          /\ \E x \in NonLit(disk') :
                /\ x.key = ExportKey(p.key)
                /\ \E c \in Conditions : ~Absent(x[c])
                /\ \A c \in Conditions :
                      ~Absent(x[c]) => x[c] = Path(TRUE, "src", RelOf(p.file), p.file.ext)

RootIndexFiles(t) == {f \in FilesAt(t, <<>>) : f.base = "index" /\ f.ext \in SourceExts}

\* C14: for a package with bin and neither main nor module, buildFiles and
\* publicFiles at the source root are the single entry index -> a root index
\* file, and ConfigurationError is raised exactly when the source root has
\* no index-named file
C14_PureCLICollapse ==
    isPureCLIPackage(disk) =>
       LET pub == getPublicFiles(tree, disk, <<>>)
           bld == getAllBuildFiles(tree, disk, <<>>)
       IN  /\ (pub.err = "ConfigurationError") <=> (RootIndexFiles(tree) = {})
           /\ (bld.err = "ConfigurationError") <=> (RootIndexFiles(tree) = {})
           /\ RootIndexFiles(tree) # {} =>
                 /\ pub.files = bld.files
                 /\ \E f \in RootIndexFiles(tree) : pub.files = {[key |-> <<"index">>, file |-> f]}

\* C15: a clean that fails has failed in the manifest revert and has
\* removed no directory; a clean that succeeds has reverted the manifest,
\* and the directories it removed are build folders of the reverted
\* manifest, whether or not the removal of another folder failed
C15_CleanStep ==
    (last'.op = "clean" /\ <<last, disk, dirs>>' # <<last, disk, dirs>>) =>
       LET w == writePackageJson(disk, tree, FALSE, "ok")
       IN  /\ ~last'.ok =>
                 /\ dirs' = dirs /\ disk' = disk
                 /\ last'.raised # "none"
           /\ last'.ok =>
                 /\ w.err = "none" /\ disk' = w.disk
                 /\ dirs' \subseteq dirs
                 /\ \A d \in dirs \ dirs' : \E r \in getBuildFolders(tree, disk') : IsPrefix(r, d)
                 /\ Cardinality(dirs' \cap getBuildFolders(tree, disk')) <= MaxFailures

C15_CleanOrdering == [][C15_CleanStep]_vars

\* the removal of cjs/ failed, esm/ was removed all the same, clean succeeded
C15_Witness ==
    /\ last.op = "clean" /\ last.ok /\ last.wrote
    /\ HasKey(disk, "main") /\ HasKey(disk, "module")
    /\ <<"cjs">> \in dirs /\ <<"esm">> \notin dirs

\* C16: the error a failed build propagates is the error of the step that
\* failed
C16_OriginalErrorWins ==
    pc = "failed" => build.err = build.failedAt

\* C17: after a successful build in which no proxy creation failed, the
\* proxy directories created are the export subpaths of the manifest other
\* than "." and "./package.json"
C17_ProxySet ==
    (pc = "ok" /\ ~build.proxyFail) =>
       build.proxies = {x.key : x \in NonLit(disk)} \ {<<>>}

\* C19: a ConfigurationError raised by classification or by the derivation
\* of the build plan inside the clean or the dev command reaches the
\* command's catch block as a ConfigurationError
C19_CategoryStep ==
    ( /\ last' # last /\ last'.op \in {"clean", "devCommand"}
      /\ computeNext(disk, tree, FALSE).err = "ConfigurationError"
      /\ last'.raised = "ConfigurationError" )
    => last'.err = "ConfigurationError"

C19_ErrorCategory == [][C19_CategoryStep]_vars

\* C18: toProd turns every bin path ./src/<p> into ./cjs/<p> (.js becoming
\* .cjs) with a cjs build and into ./esm/<p> otherwise, and the toDev that
\* follows gives back the path the manifest had
C18_BinStep ==
    (Returned /\ last'.op = "prod") =>
       LET builds == getPackageBuilds(disk).builds
           back == writePackageJson(disk', tree, FALSE, "ok")
       IN  /\ \A e \in disk.bin.entries :
                 StartsWithDot(e.path, {"src"}) =>
                    \E x \in disk'.bin.entries :
                       /\ x.name = e.name
                       /\ x.path.segs = e.path.segs
                       /\ x.path.dir = IF "cjs" \in builds THEN "cjs" ELSE "esm"
                       /\ x.path.ext = IF "cjs" \in builds /\ e.path.ext = "js" THEN "cjs" ELSE e.path.ext
           /\ back.err = "none" =>
                 \A e \in disk.bin.entries :
                    StartsWithDot(e.path, {"src"}) => e \in back.disk.bin.entries

C18_BinReversal == [][C18_BinStep]_vars

\* C20: in watch mode of a library package, once every delivered event is
\* handled (the last cycle not having been ignored for an unreadable
\* package), the manifest is the one the dev transform of the current source
\* tree gives
C20_WatchConverges ==
    ( /\ pc = "watching" /\ events = <<>>
      /\ shouldProcessInDev(disk)
      /\ last.op # "ignored" )
    => LET w == writePackageJson(disk, tree, FALSE, "ok")
       IN  w.err = "none" => ~w.wrote

\* the number of lines of kind k in an ignore file
CountLines(g, k) == Cardinality({i \in 1..Len(g) : g[i].kind = k})

\* C21: once makeGitignore has written the ignore file, writing it again
\* gives the same file, and the file holds exactly one start marker and one
\* end marker
C21_IgnoreBlock ==
    (last.op = "gitignore" /\ last.wrote)
    => /\ makeGitignore(gitignore, tree, disk, "ok") = gitignore
       /\ CountLines(gitignore, "start") = 1
       /\ CountLines(gitignore, "end") = 1

\* C22: in a package no build has run in, where every directory beside
\* src/ is the author's, clean removes no directory
C22_SafeCleaning == [][dirs \subseteq dirs']_vars

Formats == {"cjs", "esm"}

\* C23: a step of a build completes at most one format, the head of the
\* plan, cjs before esm; once a format's run has rejected no format
\* completes, the ignore file and the directories stay as they are, and no
\* production transform runs
C23_BundleStep ==
    LET newly == (build'.done \ build.done) \cap Formats
    IN  /\ Cardinality(newly) <= 1
        /\ newly # {} => /\ pc = "bundle" /\ build.failedAt = "none"
                         /\ newly = {Head(build.todo)}
                         /\ build'.todo = Tail(build.todo)
        /\ ("esm" \in newly /\ Truthy(disk, "main")) => "cjs" \in build.done
        /\ (pc = "bundle" /\ build'.failedAt = "bundle") => (pc' = "catch" /\ newly = {})
        /\ (build.failedAt = "bundle" /\ build' # NoBuild)
              => /\ build'.done = build.done
                 /\ gitignore' = gitignore /\ dirs' = dirs
                 /\ pc' \notin {"bundle", "meta", "finalize", "ok"}
                 /\ ~(last' # last /\ last'.op = "prod")

C23_SequentialFormats == [][C23_BundleStep]_vars

\* the esm run rejected after the cjs run completed, and the build has ended
C23_Witness ==
    /\ pc = "failed" /\ build.failedAt = "bundle"
    /\ "cjs" \in build.done /\ "esm" \notin build.done
    /\ build.todo = <<"esm">>

\* C24: for a library package without bin, getPublicFiles gives what
\* getAllBuildFiles gives: a key for every source file at every depth
C24_PublicAtEveryDepth ==
    (shouldProcessInDev(disk) /\ ~Truthy(disk, "bin"))
    => getPublicFiles(tree, disk, <<>>) = getAllBuildFiles(tree, disk, <<>>)

\* C25: when a transform returns, the manifest on disk has the main,
\* module, types, bin and exports (presence and value) that getPackageJson
\* returns for the manifest read and the same mode
C25_PreviewStep ==
    (Returned /\ last'.op \in {"dev", "prod"}) =>
       LET g == getPackageJson(disk, tree, last'.op = "prod")
       IN  /\ g.err = "none"
           /\ \A k \in Touched :
                 /\ HasKey(g.next, k) <=> HasKey(disk', k)
                 /\ g.next[k] = disk'[k]

C25_PreviewEqualsWrite == [][C25_PreviewStep]_vars

\* C26: no step gives the manifest a main or a module field it did not
\* have, and a pure CLI package stays a pure CLI package
C26_KindStep ==
    /\ \A k \in {"main", "module"} : HasKey(disk', k) => HasKey(disk, k)
    /\ isPureCLIPackage(disk) => isPureCLIPackage(disk')

C26_StablePackageKind == [][C26_KindStep]_vars

\* two path strings that name one file, whatever their "./" prefix
SameFile(p, q) == p.dir = q.dir /\ p.segs = q.segs /\ p.ext = q.ext

\* C27: when a dev transform returns and exports["."] exists, every one of
\* main, module and types that is present names the file that the
\* conditions of exports["."] name
C27_RootStep ==
    (Returned /\ last'.op = "dev") =>
       \A e \in NonLit(disk') :
          e.key = <<>> =>
             \A k \in {"main", "module", "types"}, c \in {"types", "import", "require"} :
                (HasKey(disk', k) /\ ~Absent(e[c])) => SameFile(disk'[k], e[c])

C27_ConsistentRootEntry == [][C27_RootStep]_vars

\* C28: a prod transform keeps every bin entry whose path does not begin
\* with ./src/, a dev transform every bin entry whose path does not begin
\* with ./cjs/ or ./esm/, for a string bin and for a mapping bin alike
C28_FrameStep ==
    Returned =>
       /\ disk'.bin.kind = disk.bin.kind
       /\ \A e \in disk.bin.entries :
             ( \/ last'.op = "prod" /\ ~StartsWithDot(e.path, {"src"})
               \/ last'.op = "dev" /\ ~StartsWithDot(e.path, {"cjs", "esm"}) )
             => e \in disk'.bin.entries

C28_BinFrame == [][C28_FrameStep]_vars


\* C29: every proxy manifest written by a build has a types entry only when
\* the root manifest has a types (or typings) field, and when it has both a module and a
\* main entry its types entry points into the esm directory
C29_ProxyTypes ==
    \A p \in build.proxyPkgs :
        /\ p.types # NoProxyPath => (HasKey(disk, "types") \/ hasTypesField(disk))
        /\ (p.module # NoProxyPath /\ p.main # NoProxyPath) => p.types.dir = getESMDir


\* C30: for a library package whose source root holds a qualifying source
\* file, buildFiles and publicFiles are both computed without an error,
\* whatever the subdirectories hold, and no key lies in a subdirectory
\* that has no qualifying entry
Unproductive(t, d) ==
    /\ \A f \in FilesAt(t, d) : ~isPublicModuleForBuildFile(f)
    /\ DirsAt(t, d) = {}

C30_UnproductiveSubdirs ==
    (shouldProcessInDev(disk) /\ \E f \in FilesAt(tree, <<>>) : isPublicModuleFile(f))
    => /\ getAllBuildFiles(tree, disk, <<>>).err = "none"
       /\ getPublicFiles(tree, disk, <<>>).err = "none"
       /\ \A e \in getAllBuildFiles(tree, disk, <<>>).files \cup getPublicFiles(tree, disk, <<>>).files :
             ~Unproductive(tree, e.file.dir)

====
